---------------------------- MODULE Spec2Model ----------------------------
(***************************************************************************)
(* A model of the three scripts of the repository:                         *)
(*   scraper/generate_daily.py  the seeded PRNG, the seeded shuffle and    *)
(*                              the daily-file generator,                  *)
(*   scraper/scraper.py         the Wikidata scraper,                      *)
(*   scraper/validate.py        the pool validator.                        *)
(*                                                                         *)
(* TLC's integers are 32-bit signed, so an unsigned 32-bit word of the     *)
(* PRNG is kept as a record [hi, lo] of two 16-bit halves and all the      *)
(* arithmetic below is carried out on the halves.                          *)
(***************************************************************************)
EXTENDS Integers, Sequences, FiniteSets, TLC

Null == "null"

(***************************************************************************)
(* Unsigned 32-bit words.                                                  *)
(***************************************************************************)
Half == 2 ^ 16

Word(h, l) == [hi |-> h, lo |-> l]

RECURSIVE Xor16(_, _)
Xor16(a, b) ==
  IF a = 0 THEN b
  ELSE IF b = 0 THEN a
  ELSE ((a + b) % 2) + 2 * Xor16(a \div 2, b \div 2)

RECURSIVE Or16(_, _)
Or16(a, b) ==
  IF a = 0 THEN b
  ELSE IF b = 0 THEN a
  ELSE (IF a % 2 = 1 \/ b % 2 = 1 THEN 1 ELSE 0) + 2 * Or16(a \div 2, b \div 2)

\* Xor16 tabulated on bytes, and a ^ b on 16-bit numbers read from the table
XorByte == [a \in 0..255 |-> [b \in 0..255 |-> Xor16(a, b)]]

XorHalf(a, b) == XorByte[a \div 256][b \div 256] * 256 + XorByte[a % 256][b % 256]

\* a ^ b
Xor32(a, b) == Word(XorHalf(a.hi, b.hi), XorHalf(a.lo, b.lo))

\* a | c for a small constant c (c < 2^16)
OrLow(a, c) == Word(a.hi, Or16(a.lo, c))

\* a >> k for 0 < k < 16
Shr(a, k) ==
  Word(a.hi \div (2 ^ k), (a.hi % (2 ^ k)) * (2 ^ (16 - k)) + a.lo \div (2 ^ k))

\* (a + b) & 0xFFFFFFFF
Add32(a, b) ==
  LET s == a.lo + b.lo
  IN  Word((a.hi + b.hi + s \div Half) % Half, s % Half)

\* the full 32-bit product of two 16-bit numbers, as a word
Mul16(x, y) ==
  LET p1 == x * (y \div 256)
      p0 == x * (y % 256)
      t  == (p1 % 256) * 256 + p0
  IN  Word(p1 \div 256 + t \div Half, t % Half)

\* (a * b) & 0xFFFFFFFF
Mul32(a, b) ==
  LET ll == Mul16(a.lo, b.lo)
      c1 == Mul16(a.hi, b.lo).lo
      c2 == Mul16(a.lo, b.hi).lo
  IN  Word((ll.hi + c1 + c2) % Half, ll.lo)

\* a < b as unsigned numbers
Less32(a, b) == a.hi < b.hi \/ (a.hi = b.hi /\ a.lo < b.lo)

(***************************************************************************)
(* mulberry32 (generate_daily.py, lines 22-31).                            *)
(***************************************************************************)
\* 0x6D2B79F5, the additive constant of line 26
Increment == Word(27947, 31221)

\* 0xFFFFFFFF, the divisor of line 30
Divisor == Word(65535, 65535)

\* line 26: seed = (seed + 0x6D2B79F5) & 0xFFFFFFFF
Advance(seed) == Add32(seed, Increment)

\* lines 27-30: the 32-bit numerator (t ^ (t >> 14)) & 0xFFFFFFFF computed from
\* the advanced state.  In line 29 Python's + binds tighter than &, so the
\* right-hand side is (t + (t ^ (t >> 7)) * (t | 61)) & 0xFFFFFFFF.
Numerator(state) ==
  LET t1 == Mul32(Xor32(state, Shr(state, 15)), OrLow(state, 1))
      t2 == Xor32(t1, Add32(t1, Mul32(Xor32(t1, Shr(t1, 7)), OrLow(t1, 61))))
  IN  Xor32(t2, Shr(t2, 14))

\* One call of the closure random(): the new value of the captured seed and
\* the value returned, the fraction num / 0xFFFFFFFF given by its numerator.
Random(seed) ==
  LET s == Advance(seed)
  IN  [seed |-> s, num |-> Numerator(s)]


(***************************************************************************)
(* shuffle_with_seed (generate_daily.py, lines 33-40).                     *)
(*                                                                         *)
(* Python lists are objects: the model keeps them in a heap, a sequence    *)
(* of lists indexed by reference, so that a write through one reference is *)
(* seen through every alias of it.                                         *)
(***************************************************************************)
\* line 38: int(rng() * n) for the draw with numerator num, n = i + 1.
\* The draw is the double num / 4294967295.0 and the product is rounded once
\* more; for n <= 50 the truncated result equals the exact floor of
\* num * n / (2^32 - 1): where that quotient is not an integer its distance to
\* the next integer is at least 2^-32, far above the rounding error, and
\* where it is an integer (num * n a multiple of 2^32 - 1) the doubles give
\* that integer exactly.  With num * n = q * 2^32 + r the floor is
\* q + (1 if q + r >= 2^32 - 1 else 0).
IndexJ(num, n) ==
  LET b == num.lo * n
      s == num.hi * n + b \div Half
      q == s \div Half
  IN  q + (IF s % Half = Half - 1 /\ (b % Half) + q >= Half - 1 THEN 1 ELSE 0)

\* an aliasing "copy": the same list object is returned
ListCopyAlias(h, ref) == [heap |-> h, ref |-> ref]

\* line 35: items.copy() allocates a new list with the same elements
ListCopy(h, ref) == [heap |-> Append(h, h[ref]), ref |-> Len(h) + 1]

\* line 39: items[i], items[j] = items[j], items[i]  (i, j are Python's
\* 0-based indices)
Swap(list, i, j) ==
  [list EXCEPT ![i + 1] = list[j + 1], ![j + 1] = list[i + 1]]

\* lines 37-39: the loop for i in range(len(items) - 1, 0, -1) from index i
\* on, with the generator's captured seed; over records whether a swap
\* partner j exceeded i so far.  Reading items[j] with j >= len(items) raises
\* IndexError before anything is assigned.
RECURSIVE FisherYates(_, _, _, _, _)
FisherYates(h, ref, i, seed, over) ==
  IF i < 1 THEN [heap |-> h, raised |-> FALSE, over |-> over]
  ELSE LET r == Random(seed)
           j == IndexJ(r.num, i + 1)
       IN  IF j >= Len(h[ref])
           THEN [heap |-> h, raised |-> TRUE, over |-> TRUE]
           ELSE FisherYates([h EXCEPT ![ref] = Swap(h[ref], i, j)],
                            ref, i - 1, r.seed, over \/ j > i)

\* The call shuffle_with_seed(items, seed) on the heap h, items being the
\* list at reference ref: the heap after the call, the reference returned,
\* whether IndexError was raised, and whether some swap partner j exceeded i.
ShuffleWithSeed(h, ref, seed) ==
  LET c == ListCopy(h, ref)
      r == FisherYates(c.heap, c.ref, Len(c.heap[c.ref]) - 1, seed, FALSE)
  IN  [heap |-> r.heap, ret |-> c.ref, raised |-> r.raised, over |-> r.over]

(***************************************************************************)
(* Dates.  A datetime is a record [year, month, day, hour]; the hour       *)
(* stands for the time of day.  datetime + timedelta(days) and             *)
(* datetime - datetime work on proleptic Gregorian ordinals, as the        *)
(* standard library does.                                                  *)
(***************************************************************************)
DateTime(y, m, d, h) == [year |-> y, month |-> m, day |-> d, hour |-> h]

IsLeap(y) == y % 4 = 0 /\ (y % 100 # 0 \/ y % 400 = 0)

DaysInMonth(y, m) ==
  IF m = 2 THEN (IF IsLeap(y) THEN 29 ELSE 28)
  ELSE IF m \in {4, 6, 9, 11} THEN 30 ELSE 31

RECURSIVE DaysBeforeMonth(_, _)
DaysBeforeMonth(y, m) ==
  IF m = 1 THEN 0 ELSE DaysBeforeMonth(y, m - 1) + DaysInMonth(y, m - 1)

DaysBeforeYear(y) ==
  (y - 1) * 365 + (y - 1) \div 4 - (y - 1) \div 100 + (y - 1) \div 400

\* date.toordinal(): 0001-01-01 is day 1
ToOrdinal(dt) == DaysBeforeYear(dt.year) + DaysBeforeMonth(dt.year, dt.month) + dt.day

\* date.fromordinal(n), by 400-, 100-, 4- and 1-year cycles
FromOrdinal(n, h) ==
  LET n0   == n - 1
      n400 == n0 \div 146097
      r400 == n0 % 146097
      n100 == r400 \div 36524
      r100 == r400 % 36524
      n4   == r100 \div 1461
      r4   == r100 % 1461
      n1   == r4 \div 365
      r1   == r4 % 365
      y    == n400 * 400 + n100 * 100 + n4 * 4 + n1 + 1
  IN  IF n1 = 4 \/ n100 = 4 THEN DateTime(y - 1, 12, 31, h)
      ELSE LET m == CHOOSE k \in 1..12 :
                      /\ DaysBeforeMonth(y, k) <= r1
                      /\ r1 < DaysBeforeMonth(y, k) + DaysInMonth(y, k)
           IN  DateTime(y, m, r1 - DaysBeforeMonth(y, m) + 1, h)

\* today + timedelta(days=n): the time of day is kept
AddDays(dt, n) == FromOrdinal(ToOrdinal(dt) + n, dt.hour)

\* (a - b).days: a timedelta is normalised so that its seconds are
\* non-negative, which makes .days the floor of the difference in days
DeltaDays(a, b) ==
  ((ToOrdinal(a) - ToOrdinal(b)) * 24 + (a.hour - b.hour)) \div 24

(***************************************************************************)
(* The generator's pure functions (generate_daily.py, lines 14-55).        *)
(***************************************************************************)
SALT == "DailyDeparted2024SecretSalt!@#$"

DAYS_TO_GENERATE == 365

START_DATE == DateTime(2024, 1, 1, 0)

\* the slice length of line 82, shuffled[:10]
SliceLen == 10

\* an int of Python as a 32-bit word (0 <= n < 2^31)
ToWord(n) == Word(n \div Half, n % Half)

\* a seed that also reads the time of day
get_day_seed_hour(date) ==
  date.year * 10000 + date.month * 100 + date.day + date.hour * 1000000

\* lines 42-44: int(date.strftime("%Y%m%d"))
get_day_seed(date) == date.year * 10000 + date.month * 100 + date.day

\* a day number that counts the start date as day 0
get_day_number_zero(date) == DeltaDays(date, START_DATE)

\* lines 46-48
get_day_number(date) == DeltaDays(date, START_DATE) + 1

\* lines 50-55: the first 16 hex digits of SHA-256 of "SALT:YYYY-MM-DD".  The
\* digest is not computed: a filename stem stands for the string hashed, so
\* two dates get the same stem only if they format to the same string.
get_filename_hash(date) == <<SALT, date.year, date.month, date.day>>

\* list[:n]
Prefix(list, n) == SubSeq(list, 1, IF Len(list) < n THEN Len(list) ELSE n)

(***************************************************************************)
(* State.                                                                  *)
(***************************************************************************)
VARIABLES
  \* mulberry32: the closure's captured seed, the numerator of the value the
  \* last call returned, the number of calls made
  rngSeed, rngOut, rngCalls,
  \* shuffle_with_seed: the caller's list, its content before the first call,
  \* the last call's outcome ("none", "returned", "raised"), the list it
  \* returned, whether a swap partner exceeded i, the number of calls made
  items, itemsBefore, shufflePc, shuffleRet, shuffleOver, shuffleCalls,
  \* the generator: data/celebrities.json, the list loaded from it, today,
  \* the loop index i, the manifest dict, the daily files of data/days by
  \* filename stem, the content of manifest.json and the run that wrote it
  \* (0: none), the position of main, the number of the current run, the
  \* start times of the runs, the days directory as the first run left it
  poolFile, celebrities, today, dayIndex, manifest, dayFiles, manifestFile,
  manifestRun, genPc, runNo, starts, afterFirst,
  \* the scraper: what the upstream service answers to each query, the
  \* position of main, the index of the next profession, the queries issued
  \* so far, the rows fetched, the candidates processed and selected, the
  \* files celebrities.json and celebrities_backup.json, celebrities.json as
  \* it was before the run, the file operations of the run in order
  upstream, scrPc, profIndex, issued, dead_results, alive_results, rowIndex,
  processed, balanced, outputFile, backupFile, outputBefore, fileLog,
  \* the validator: the records loaded from celebrities.json, the position
  \* of main, the number of records validated, the list all_errors, whether
  \* check_duplicates has run, check_balance's is_balanced, the exit status
  valPool, valPc, valIndex, all_errors, dupChecked, is_balanced, exitStatus

rngVars == <<rngSeed, rngOut, rngCalls>>

shuffleVars == <<items, itemsBefore, shufflePc, shuffleRet, shuffleOver, shuffleCalls>>

genVars == <<poolFile, celebrities, today, dayIndex, manifest, dayFiles,
             manifestFile, manifestRun, genPc, runNo, starts, afterFirst>>

scrVars == <<upstream, scrPc, profIndex, issued, dead_results, alive_results,
             rowIndex, processed, balanced, outputFile, backupFile, outputBefore, fileLog>>

valVars == <<valPool, valPc, valIndex, all_errors, dupChecked, is_balanced, exitStatus>>

vars == <<rngVars, shuffleVars, genVars, scrVars, valVars>>

\* the empty dict, the empty directory
Empty == <<>>

RngIdle == rngSeed = Word(0, 0) /\ rngOut = Word(0, 0) /\ rngCalls = 0

ShuffleIdle ==
  /\ items = <<>> /\ itemsBefore = <<>> /\ shufflePc = "none"
  /\ shuffleRet = <<>> /\ shuffleOver = FALSE /\ shuffleCalls = 0

GenIdle ==
  /\ poolFile = <<>> /\ celebrities = <<>> /\ today = START_DATE
  /\ dayIndex = 0 /\ manifest = Empty /\ dayFiles = Empty
  /\ manifestFile = Empty /\ manifestRun = 0 /\ genPc = "idle"
  /\ runNo = 0 /\ starts = <<>>
  /\ afterFirst = [dayFiles |-> Empty, manifestFile |-> Empty]

\* a file that does not exist, and a file with a content
NoFile == [exists |-> FALSE, content |-> {}]

File(c) == [exists |-> TRUE, content |-> c]

ScrIdle ==
  /\ upstream = [okFrom |-> 1, okTo |-> 0, skip |-> 0, rows |-> 0, ids |-> 0]
  /\ scrPc = "idle" /\ profIndex = 0 /\ issued = <<>>
  /\ dead_results = <<>> /\ alive_results = <<>> /\ rowIndex = 0
  /\ processed = <<>> /\ balanced = {} /\ outputFile = NoFile /\ backupFile = NoFile
  /\ outputBefore = NoFile /\ fileLog = <<>>

ValIdle ==
  /\ valPool = <<>> /\ valPc = "idle" /\ valIndex = 0 /\ all_errors = <<>>
  /\ dupChecked = FALSE /\ is_balanced = FALSE /\ exitStatus = -1

(***************************************************************************)
(* The generator mulberry32(seed) called repeatedly.                       *)
(***************************************************************************)
MaxCalls == 3

\* 394144346 and 3543772583, and the seeds one and two increments below them
SeedA == Word(6014, 10842)

SeedB == Word(54073, 44455)

Decrement == Word(Half - 1 - Increment.hi, Half - Increment.lo)

RngSeeds ==
  {ToWord(20240100 + d) : d \in 1..31}
    \cup {Word(0, 0), Word(0, 1), Word(Half - 1, Half - 1)}
    \cup {SeedA, SeedB, Add32(SeedA, Decrement), Add32(SeedB, Decrement),
          Add32(Add32(SeedA, Decrement), Decrement)}

RngInit ==
  /\ rngSeed \in RngSeeds /\ rngOut = Word(0, 0) /\ rngCalls = 0
  /\ ShuffleIdle /\ GenIdle /\ ScrIdle /\ ValIdle

\* rng()
RngCall ==
  /\ rngCalls < MaxCalls
  /\ LET r == Random(rngSeed)
     IN  rngSeed' = r.seed /\ rngOut' = r.num
  /\ rngCalls' = rngCalls + 1
  /\ UNCHANGED <<shuffleVars, genVars, scrVars, valVars>>

RngNext == RngCall

SpecRng == RngInit /\ [][RngNext]_vars

(***************************************************************************)
(* shuffle_with_seed called repeatedly on one list.                        *)
(***************************************************************************)
MaxLen == 3

MaxShuffleCalls == 2

Elems == {"a", "b", "c"}

ShuffleInputs == UNION {[1..n -> Elems] : n \in 0..MaxLen}

ShuffleSeeds ==
  {ToWord(1), ToWord(42), ToWord(20240101), ToWord(20240305), SeedA, SeedB,
   Add32(SeedA, Decrement)}

ShuffleInit ==
  /\ items \in ShuffleInputs /\ itemsBefore = items
  /\ shufflePc = "none" /\ shuffleRet = <<>> /\ shuffleOver = FALSE
  /\ shuffleCalls = 0
  /\ RngIdle /\ GenIdle /\ ScrIdle /\ ValIdle

\* shuffle_with_seed(items, s): the caller's list is object 1 of the heap
ShuffleCall(s) ==
  /\ shuffleCalls < MaxShuffleCalls
  /\ \E r \in {ShuffleWithSeed(<<items>>, 1, s)} :
         /\ items' = r.heap[1]
         /\ shufflePc' = IF r.raised THEN "raised" ELSE "returned"
         /\ shuffleRet' = IF r.raised THEN <<>> ELSE r.heap[r.ret]
         /\ shuffleOver' = r.over
  /\ shuffleCalls' = shuffleCalls + 1
  /\ UNCHANGED <<itemsBefore, rngVars, genVars, scrVars, valVars>>

ShuffleNext == \E s \in ShuffleSeeds : ShuffleCall(s)

SpecShuffle == ShuffleInit /\ [][ShuffleNext]_vars

Count(list, x) == Cardinality({k \in 1..Len(list) : list[k] = x})

IsPermutation(a, b) ==
  /\ Len(a) = Len(b)
  /\ \A k \in 1..Len(a) : Count(a, a[k]) = Count(b, a[k])

(* C1: for every list and every uint32 seed, shuffle_with_seed returns      *)
(* normally, every swap partner j is an index 0..i, and the result is a    *)
(* permutation of the list passed.                                         *)
ShuffleIsPermutation ==
  shufflePc # "none" =>
    /\ shufflePc = "returned"
    /\ ~shuffleOver
    /\ IsPermutation(shuffleRet, itemsBefore)

(* C2: every value the generator returns lies in [0, 1), its numerator     *)
(* being strictly below the divisor, and the state stays in 0..2^32-1.     *)
DrawBelowOne ==
  /\ rngSeed.hi \in 0..(Half - 1) /\ rngSeed.lo \in 0..(Half - 1)
  /\ rngCalls > 0 => Less32(rngOut, Divisor)

(***************************************************************************)
(* main of generate_daily.py (lines 57-108), run twice over one pool file.  *)
(***************************************************************************)
\* main is run once and then once more
Runs == {1, 2}

SmallPool == 3

MaxPool == 12

\* a pool of n candidates, each standing for one JSON object
Pool(n) == [k \in 1..n |-> k]

PoolFiles == {Pool(SmallPool), Pool(MaxPool)}

\* the values of datetime.now()
StartTimes ==
  {DateTime(2023, 12, 31, 15), DateTime(2024, 1, 1, 0), DateTime(2024, 1, 1, 15),
   DateTime(2026, 11, 1, 9)}

GenInit ==
  /\ poolFile \in PoolFiles
  /\ celebrities = <<>> /\ today = START_DATE
  /\ dayIndex = 0 /\ manifest = Empty /\ dayFiles = Empty
  /\ manifestFile = Empty /\ manifestRun = 0 /\ genPc = "idle"
  /\ runNo = 0 /\ starts = <<>>
  /\ afterFirst = [dayFiles |-> Empty, manifestFile |-> Empty]
  /\ RngIdle /\ ShuffleIdle /\ ScrIdle /\ ValIdle

\* lines 58-73: load the pool, make the directory, manifest = {},
\* today = datetime.now()
GenStart(now) ==
  /\ genPc \in {"idle", "done"}
  /\ runNo + 1 \in Runs
  /\ celebrities' = poolFile
  /\ today' = now
  /\ dayIndex' = 0
  /\ manifest' = Empty
  /\ genPc' = "loop"
  /\ runNo' = runNo + 1
  /\ starts' = Append(starts, now)
  /\ UNCHANGED <<poolFile, dayFiles, manifestFile, manifestRun, afterFirst>>
  /\ UNCHANGED <<rngVars, shuffleVars, scrVars, valVars>>

\* lines 74-95: one iteration of the loop.  The list celebrities is object 1
\* of the heap the shuffle works on; an IndexError ends the run.
GenDay ==
  /\ genPc = "loop"
  /\ dayIndex < DAYS_TO_GENERATE
  /\ LET date          == AddDays(today, dayIndex)
         day_num       == get_day_number(date)
         seed          == get_day_seed(date)
         filename_hash == get_filename_hash(date)
     IN  \E r \in {ShuffleWithSeed(<<celebrities>>, 1, ToWord(seed))} :
         LET daily_celebs == Prefix(r.heap[r.ret], SliceLen) IN
         /\ celebrities' = r.heap[1]
         /\ IF r.raised
            THEN /\ genPc' = "crashed"
                 /\ UNCHANGED <<dayFiles, manifest, dayIndex>>
            ELSE /\ dayFiles' = (filename_hash :> daily_celebs) @@ dayFiles
                 /\ manifest' = (day_num :> filename_hash) @@ manifest
                 /\ dayIndex' = dayIndex + 1
                 /\ genPc' = genPc
  /\ UNCHANGED <<poolFile, today, manifestFile, manifestRun, runNo, starts, afterFirst>>
  /\ UNCHANGED <<rngVars, shuffleVars, scrVars, valVars>>

\* a generator that writes manifest.json as soon as one daily file exists
GenWriteManifestEarly ==
  /\ genPc = "loop"
  /\ dayIndex >= 1
  /\ manifestFile' = manifest
  /\ manifestRun' = runNo
  /\ genPc' = "done"
  /\ afterFirst' = IF runNo = 1
                   THEN [dayFiles |-> dayFiles, manifestFile |-> manifest]
                   ELSE afterFirst
  /\ UNCHANGED <<poolFile, celebrities, today, dayIndex, manifest, dayFiles, runNo, starts>>
  /\ UNCHANGED <<rngVars, shuffleVars, scrVars, valVars>>

\* lines 97-100: after the loop, manifest.json is written
GenWriteManifest ==
  /\ genPc = "loop"
  /\ dayIndex = DAYS_TO_GENERATE
  /\ manifestFile' = manifest
  /\ manifestRun' = runNo
  /\ genPc' = "done"
  /\ afterFirst' = IF runNo = 1
                   THEN [dayFiles |-> dayFiles, manifestFile |-> manifest]
                   ELSE afterFirst
  /\ UNCHANGED <<poolFile, celebrities, today, dayIndex, manifest, dayFiles, runNo, starts>>
  /\ UNCHANGED <<rngVars, shuffleVars, scrVars, valVars>>

GenNext ==
  \/ \E now \in StartTimes : GenStart(now)
  \/ GenDay
  \/ GenWriteManifest

SpecGen == GenInit /\ [][GenNext]_vars

\* the calendar date of a datetime
DateOf(dt) == <<dt.year, dt.month, dt.day>>

\* the date of iteration k of the current run
DateAt(k) == AddDays(today, k)

\* the daily file the current run wrote last
LastFile == dayFiles[get_filename_hash(DateAt(dayIndex - 1))]

Distinct(list) == \A a, b \in 1..Len(list) : list[a] = list[b] => a = b

(* C3 as stated: the manifest main writes has exactly 365 entries with     *)
(* consecutive day numbers of which the smallest is 1, and 365 distinct    *)
(* daily files were written, one per entry.                                *)
ManifestStartsAtOne ==
  genPc = "done" =>
    /\ DOMAIN manifestFile = 1..DAYS_TO_GENERATE
    /\ \A k \in DOMAIN manifestFile : manifestFile[k] \in DOMAIN dayFiles
    /\ Cardinality({manifestFile[k] : k \in DOMAIN manifestFile}) = DAYS_TO_GENERATE

(* C3 as amended: the manifest main writes has exactly 365 entries with    *)
(* consecutive day numbers, the smallest being one more than the number of *)
(* days from 2024-01-01 to the day of the run, and each entry names a      *)
(* daily file that exists, 365 files in all.                               *)
ManifestStartsToday ==
  genPc = "done" =>
    LET first == ToOrdinal(today) - ToOrdinal(DateTime(2024, 1, 1, 0)) + 1
    IN  /\ DOMAIN manifestFile = first..(first + 364)
        /\ \A k \in DOMAIN manifestFile : manifestFile[k] \in DOMAIN dayFiles
        /\ Cardinality({manifestFile[k] : k \in DOMAIN manifestFile}) = 365

ManifestWrittenLater ==
  /\ genPc = "done"
  /\ DateOf(today) # <<2024, 1, 1>>
  /\ Cardinality(DOMAIN manifestFile) = 365

(* C4: every daily file written holds exactly 10 candidates, all distinct. *)
SliceHasTen ==
  (genPc = "loop" /\ dayIndex > 0) =>
    Len(LastFile) = 10 /\ Distinct(LastFile)

(* C5: a second run over the same pool never changes a daily file the      *)
(* first run wrote, whatever day it starts on, and when it starts on the   *)
(* same date the days directory, daily files and manifest, is at every     *)
(* point of the second run what the first run left.                        *)
SecondRunChangesNothing ==
  runNo = 2 =>
    /\ \A f \in DOMAIN afterFirst.dayFiles :
         f \in DOMAIN dayFiles /\ dayFiles[f] = afterFirst.dayFiles[f]
    /\ DateOf(starts[1]) = DateOf(starts[2]) =>
         /\ dayFiles = afterFirst.dayFiles
         /\ manifestFile = afterFirst.manifestFile

SecondRunDone ==
  /\ runNo = 2 /\ genPc = "done"
  /\ DateOf(starts[1]) = DateOf(starts[2])
  /\ starts[1] # starts[2]
  /\ Cardinality(DOMAIN dayFiles) = 365

(* C6: the list main loaded from the pool file has, after any number of    *)
(* calls of shuffle_with_seed on it, the elements of the file in the       *)
(* file's order.                                                           *)
PoolListUnchanged == runNo >= 1 => celebrities = poolFile

AllDaysShuffled ==
  /\ genPc = "done"
  /\ dayFiles[get_filename_hash(DateAt(0))] # Prefix(poolFile, SliceLen)
  /\ celebrities = poolFile

(* C11: in every run of main, manifest.json is written only after all 365  *)
(* daily files: while the run is in its loop, or has crashed in it, the    *)
(* manifest file is what it was when the run started (empty in the first   *)
(* run, the first run's manifest in the second), and once the run has      *)
(* written the manifest all 365 daily files of the run have been written   *)
(* and every filename stem the manifest maps to names an existing file.    *)
ManifestAfterAllFiles ==
  /\ (runNo >= 1 /\ genPc \in {"loop", "crashed"}) =>
        /\ manifestRun = runNo - 1
        /\ manifestFile = (IF runNo = 1 THEN Empty ELSE afterFirst.manifestFile)
  /\ (runNo >= 1 /\ manifestRun = runNo) =>
        /\ genPc = "done"
        /\ dayIndex = DAYS_TO_GENERATE
        /\ \A k \in 0..(DAYS_TO_GENERATE - 1) :
             get_filename_hash(DateAt(k)) \in DOMAIN dayFiles
        /\ \A d \in DOMAIN manifestFile : manifestFile[d] \in DOMAIN dayFiles

ManifestReplacedBySecondRun ==
  /\ runNo = 2 /\ genPc = "done" /\ manifestRun = 2
  /\ DateOf(starts[1]) # DateOf(starts[2])
  /\ manifestFile # afterFirst.manifestFile
  /\ \A d \in DOMAIN manifestFile : manifestFile[d] \in DOMAIN dayFiles

(***************************************************************************)
(* scraper.py.  The upstream service is a function of the query's number:  *)
(* the dead query of profession p is query p, its alive query is query     *)
(* Len(PROFESSIONS) + p, the professions query comes last.                 *)
(***************************************************************************)
\* lines 16-175: the list PROFESSIONS by index
PROFESSIONS == 1..125

NumProfessions == Cardinality(PROFESSIONS)

\* line 422: the least number of candidates that is saved
MinCelebrities == 50

\* line 427: target_total
TargetTotal == 2000

\* a result row: the person's identifier (0: none), whether the label is a
\* plain name or an identifier ("Q123"), whether the row has an image, a
\* birth year, a death year
Row(id, label, image, birth, death) ==
  [person |-> id, personLabel |-> label, image |-> image,
   hasBirth |-> birth, hasDeath |-> death]

\* the ways a query fails: requests.exceptions.Timeout, another transport
\* error (ConnectionError), a non-2xx status (HTTPError from raise_for_status)
FailKinds == <<"timeout", "transport", "http">>

\* What the service answers to query q under the pattern u: the queries
\* u.okFrom..u.okTo succeed, except every u.skip-th one, with u.rows kinds of
\* rows about the person q (or, with u.ids > 0, one of u.ids persons).
RowsFor(u, q) ==
  LET id   == IF u.ids = 0 THEN q ELSE (q % u.ids) + 1
      dead == q <= NumProfessions
      good == Row(id, "name", TRUE, TRUE, dead)
  IN  IF u.rows = 0 THEN <<>>
      ELSE IF u.rows = 1 THEN <<good>>
      ELSE IF u.rows = 2 THEN <<Row(id, "name", FALSE, TRUE, dead), good>>
      ELSE <<Row(id, "qid", TRUE, TRUE, dead), Row(id, "name", TRUE, FALSE, dead),
             good, good>>

Outcome(u, q) ==
  IF q \in u.okFrom..u.okTo /\ (u.skip = 0 \/ q % u.skip # 0)
  THEN [kind |-> "ok", rows |-> RowsFor(u, q)]
  ELSE [kind |-> FailKinds[(q % 3) + 1], rows |-> <<>>]

Pattern(from, to, skip, rows, ids) ==
  [okFrom |-> from, okTo |-> to, skip |-> skip, rows |-> rows, ids |-> ids]

LastQuery == 2 * NumProfessions + 1

Patterns ==
  {Pattern(1, 0, 0, 0, 0),             \* every query fails
   Pattern(1, LastQuery, 0, 0, 0),     \* every query succeeds with no rows
   Pattern(1, 49, 0, 1, 0),            \* 49 candidates
   Pattern(1, 50, 0, 1, 0),            \* 50 candidates
   Pattern(1, LastQuery, 3, 1, 0),     \* every third query fails
   Pattern(1, LastQuery, 0, 2, 40),    \* many rows about 40 persons
   Pattern(NumProfessions + 1, LastQuery, 2, 3, 0),  \* every dead query fails
   Pattern(1, LastQuery, 0, 3, 0)}     \* every query succeeds

\* a fetch_query that lets a timeout escape
FetchQueryTimeoutRaises(outcome) ==
  [raised |-> outcome.kind = "timeout",
   results |-> IF outcome.kind = "ok" THEN outcome.rows ELSE <<>>]

\* lines 221-247: fetch_query on the service's answer: the bindings of a
\* successful answer; Timeout and every other RequestException (raised by
\* requests.get or by raise_for_status) are caught and give []
FetchQuery(outcome) ==
  [raised |-> FALSE,
   results |-> IF outcome.kind = "ok" THEN outcome.rows ELSE <<>>]

\* lines 304-314: the candidate made from a row
Celebrity(row, is_dead) ==
  [id |-> row.person, dead |-> is_dead /\ row.hasDeath,
   profession |-> "notable person"]

\* a process_results in which a later row of an identifier replaces the
\* candidate the dict holds for it
ProcessRowLastWins(celebs, row, is_dead) ==
  IF row.personLabel = "qid" THEN celebs
  ELSE IF ~row.image \/ ~row.hasBirth THEN celebs
  ELSE IF \E k \in 1..Len(celebs) : celebs[k].id = row.person
  THEN [k \in 1..Len(celebs) |->
          IF celebs[k].id = row.person THEN Celebrity(row, is_dead) ELSE celebs[k]]
  ELSE Append(celebs, Celebrity(row, is_dead))

\* lines 283-316: one row of the loop of process_results, celebrities being
\* the dict so far in insertion order
ProcessRow(celebs, row, is_dead) ==
  IF \E k \in 1..Len(celebs) : celebs[k].id = row.person THEN celebs
  ELSE IF row.personLabel = "qid" THEN celebs
  ELSE IF ~row.image \/ ~row.hasBirth THEN celebs
  ELSE Append(celebs, Celebrity(row, is_dead))

\* a check that lets every result through
TooFewNever(celebs) == FALSE

\* line 422
TooFew(celebs) == Len(celebs) < MinCelebrities

\* lines 362-387: balance_and_select.  random.shuffle orders the alive and
\* the dead candidates before target_total // 2 of each are kept and orders
\* the result; the order is not modelled, the selection is a set, and the
\* pools of the model stay below target_total // 2, so that all are kept.
BalanceAndSelect(celebs) ==
  LET each  == TargetTotal \div 2
      alive == SelectSeq(celebs, LAMBDA c : ~c.dead)
      dead  == SelectSeq(celebs, LAMBDA c : c.dead)
  IN  {Prefix(alive, each)[k] : k \in 1..Len(Prefix(alive, each))}
        \cup {Prefix(dead, each)[k] : k \in 1..Len(Prefix(dead, each))}

\* lines 321-359: add_professions: one more query; when it succeeds every
\* candidate it has an occupation for gets it, a failure changes nothing
AddProfessions(cands, fetched) ==
  IF fetched.results = <<>> THEN cands
  ELSE {[c EXCEPT !.profession = "occupation"] : c \in cands}

OldPool == {[id |-> 0, dead |-> FALSE, profession |-> "old"]}

StalePool == {[id |-> 0, dead |-> TRUE, profession |-> "stale"]}

ScrInit ==
  /\ upstream \in Patterns
  /\ \E files \in {<<NoFile, NoFile>>, <<File(OldPool), NoFile>>,
                    <<File(OldPool), File(StalePool)>>} :
       outputFile = files[1] /\ backupFile = files[2] /\ outputBefore = files[1]
  /\ scrPc = "start" /\ profIndex = 0 /\ issued = <<>>
  /\ dead_results = <<>> /\ alive_results = <<>> /\ rowIndex = 0
  /\ processed = <<>> /\ balanced = {} /\ fileLog = <<>>
  /\ RngIdle /\ ShuffleIdle /\ GenIdle /\ ValIdle

\* lines 400-409: the existing pool is copied to celebrities_backup.json
ScrBackup ==
  /\ scrPc = "start"
  /\ IF outputFile.exists
     THEN backupFile' = outputFile /\ fileLog' = Append(fileLog, "backup")
     ELSE UNCHANGED <<backupFile, fileLog>>
  /\ scrPc' = "fetch_dead"
  /\ profIndex' = 1
  /\ UNCHANGED <<upstream, issued, dead_results, alive_results, rowIndex, processed,
                 balanced, outputFile, outputBefore>>
  /\ UNCHANGED <<rngVars, shuffleVars, genVars, valVars>>

\* lines 256-260: one iteration of the first loop of fetch_all_celebrities
ScrFetchDead ==
  /\ scrPc = "fetch_dead"
  /\ issued' = Append(issued, [prof |-> profIndex, is_dead |-> TRUE])
  /\ \E r \in {FetchQuery(Outcome(upstream, profIndex))} :
       IF r.raised
       THEN scrPc' = "crashed" /\ UNCHANGED <<dead_results, profIndex>>
       ELSE /\ dead_results' = dead_results \o r.results
            /\ IF profIndex < NumProfessions
               THEN profIndex' = profIndex + 1 /\ scrPc' = scrPc
               ELSE profIndex' = 1 /\ scrPc' = "fetch_alive"
  /\ UNCHANGED <<upstream, alive_results, rowIndex, processed, balanced, outputFile,
                 backupFile, outputBefore, fileLog>>
  /\ UNCHANGED <<rngVars, shuffleVars, genVars, valVars>>

\* lines 265-269: one iteration of the second loop
ScrFetchAlive ==
  /\ scrPc = "fetch_alive"
  /\ issued' = Append(issued, [prof |-> profIndex, is_dead |-> FALSE])
  /\ \E r \in {FetchQuery(Outcome(upstream, NumProfessions + profIndex))} :
       IF r.raised
       THEN scrPc' = "crashed" /\ UNCHANGED <<alive_results, profIndex>>
       ELSE /\ alive_results' = alive_results \o r.results
            /\ IF profIndex < NumProfessions
               THEN profIndex' = profIndex + 1 /\ scrPc' = scrPc
               ELSE profIndex' = 0 /\ scrPc' = "fetched"
  /\ UNCHANGED <<upstream, dead_results, rowIndex, processed, balanced, outputFile,
                 backupFile, outputBefore, fileLog>>
  /\ UNCHANGED <<rngVars, shuffleVars, genVars, valVars>>

\* lines 414-416 and 278-280: with no rows at all main returns; otherwise
\* process_results starts on the dead rows followed by the alive rows
ScrCheckResults ==
  /\ scrPc = "fetched"
  /\ IF dead_results = <<>> /\ alive_results = <<>>
     THEN scrPc' = "kept" /\ UNCHANGED rowIndex
     ELSE scrPc' = "process" /\ rowIndex' = 1
  /\ UNCHANGED <<upstream, profIndex, issued, dead_results, alive_results, processed,
                 balanced, outputFile, backupFile, outputBefore, fileLog>>
  /\ UNCHANGED <<rngVars, shuffleVars, genVars, valVars>>

\* lines 282-316: one row of process_results
ScrProcessRow ==
  /\ scrPc = "process"
  /\ rowIndex <= Len(dead_results) + Len(alive_results)
  /\ LET is_dead == rowIndex <= Len(dead_results)
         row     == IF is_dead THEN dead_results[rowIndex]
                    ELSE alive_results[rowIndex - Len(dead_results)]
     IN  processed' = ProcessRow(processed, row, is_dead)
  /\ rowIndex' = rowIndex + 1
  /\ UNCHANGED <<upstream, scrPc, profIndex, issued, dead_results, alive_results,
                 balanced, outputFile, backupFile, outputBefore, fileLog>>
  /\ UNCHANGED <<rngVars, shuffleVars, genVars, valVars>>

\* lines 318 and 419-427: with too few candidates main returns; otherwise
\* balance_and_select
ScrSelect ==
  /\ scrPc = "process"
  /\ rowIndex > Len(dead_results) + Len(alive_results)
  /\ IF TooFew(processed)
     THEN scrPc' = "kept" /\ UNCHANGED balanced
     ELSE scrPc' = "professions" /\ balanced' = BalanceAndSelect(processed)
  /\ UNCHANGED <<upstream, profIndex, issued, dead_results, alive_results, rowIndex,
                 processed, outputFile, backupFile, outputBefore, fileLog>>
  /\ UNCHANGED <<rngVars, shuffleVars, genVars, valVars>>

\* line 430: add_professions; whatever fetch_query raises is caught there
ScrAddProfessions ==
  /\ scrPc = "professions"
  /\ balanced' = AddProfessions(balanced, FetchQuery(Outcome(upstream, LastQuery)))
  /\ scrPc' = "save"
  /\ UNCHANGED <<upstream, profIndex, issued, dead_results, alive_results, rowIndex,
                 processed, outputFile, backupFile, outputBefore, fileLog>>
  /\ UNCHANGED <<rngVars, shuffleVars, genVars, valVars>>

\* lines 433 and 390-395: save_celebrities overwrites celebrities.json
ScrSave ==
  /\ scrPc = "save"
  /\ outputFile' = File(balanced)
  /\ fileLog' = Append(fileLog, "save")
  /\ scrPc' = "done"
  /\ UNCHANGED <<upstream, profIndex, issued, dead_results, alive_results, rowIndex,
                 processed, balanced, backupFile, outputBefore>>
  /\ UNCHANGED <<rngVars, shuffleVars, genVars, valVars>>

ScrNext ==
  \/ ScrBackup
  \/ ScrFetchDead
  \/ ScrFetchAlive
  \/ ScrCheckResults
  \/ ScrProcessRow
  \/ ScrSelect
  \/ ScrAddProfessions
  \/ ScrSave

SpecScraper == ScrInit /\ [][ScrNext]_vars

\* the rows of the successful queries among from..to, in query order (the
\* range is halved to keep the evaluation shallow)
RECURSIVE RowsOfQueries(_, _)
RowsOfQueries(from, to) ==
  IF to < from THEN <<>>
  ELSE IF from = to
  THEN (IF Outcome(upstream, to).kind = "ok" THEN Outcome(upstream, to).rows
        ELSE <<>>)
  ELSE RowsOfQueries(from, (from + to) \div 2)
         \o RowsOfQueries((from + to) \div 2 + 1, to)

(* C7: when no row was fetched, or fewer than 50 candidates came out of    *)
(* process_results, main ends without saving and celebrities.json is what  *)
(* it was before the run; and whenever an existing celebrities.json has    *)
(* been overwritten, the backup was made first and holds the previous      *)
(* pool.                                                                   *)
AbortKeepsPool ==
  LET total == Len(dead_results) + Len(alive_results)
      ended == scrPc \in {"kept", "professions", "save", "done"}
      saved == \E k \in 1..Len(fileLog) : fileLog[k] = "save"
  IN  /\ (ended /\ (total = 0 \/ Len(processed) < 50)) =>
           /\ scrPc = "kept"
           /\ outputFile = outputBefore
           /\ ~saved
      /\ ~saved => outputFile = outputBefore
      /\ (saved /\ outputBefore.exists) =>
           /\ fileLog = <<"backup", "save">>
           /\ backupFile = outputBefore

AbortedBelowThreshold ==
  /\ scrPc = "kept"
  /\ Len(processed) = 49
  /\ outputBefore.exists
  /\ outputFile = outputBefore

(* C8: whatever queries fail, by timeout, transport error or status,       *)
(* nothing is raised, the dead query and then the alive query of every     *)
(* profession are issued in list order, and the rows returned are those    *)
(* of the successful queries, concatenated in order.                       *)
FetchNeverAborts ==
  LET n == Len(issued)
  IN  /\ scrPc # "crashed"
      /\ \A k \in 1..n :
           issued[k] = [prof |-> ((k - 1) % NumProfessions) + 1,
                        is_dead |-> k <= NumProfessions]
      /\ scrPc \notin {"start", "fetch_dead", "fetch_alive"} => n = 2 * NumProfessions
      /\ scrPc \in {"fetch_dead", "fetch_alive", "fetched"} =>
           /\ dead_results =
                RowsOfQueries(1, IF n < NumProfessions THEN n ELSE NumProfessions)
           /\ alive_results = RowsOfQueries(NumProfessions + 1, n)

FetchedDespiteFailures ==
  /\ scrPc = "fetched"
  /\ Len(issued) = 2 * NumProfessions
  /\ alive_results # <<>>
  /\ \A kind \in {"timeout", "transport", "http"} :
       \E q \in 1..(2 * NumProfessions) : Outcome(upstream, q).kind = kind

(***************************************************************************)
(* process_results(dead_results, alive_results) on row lists of bounded    *)
(* length, row by row.                                                     *)
(***************************************************************************)
MaxRows == 3

MaxIds == 2

\* rows of the persons 1..MaxIds: complete ones with and without a death
\* year, and rows with an identifier as label, without image, without
\* birth year
ProcRows ==
  UNION {{Row(id, "name", TRUE, TRUE, TRUE), Row(id, "name", TRUE, TRUE, FALSE),
          Row(id, "qid", TRUE, TRUE, TRUE), Row(id, "name", FALSE, TRUE, TRUE),
          Row(id, "name", TRUE, FALSE, TRUE)} : id \in 1..MaxIds}

RowLists(n) == UNION {[1..k -> ProcRows] : k \in 0..n}

\* lines 276-280: the call: celebrities = {}, all_results is dead_results
\* followed by alive_results
ProcInit ==
  /\ dead_results \in RowLists(MaxRows)
  /\ alive_results \in RowLists(MaxRows - Len(dead_results))
  /\ scrPc = "process" /\ rowIndex = 1 /\ processed = <<>>
  /\ upstream = Pattern(1, 0, 0, 0, 0) /\ profIndex = 0 /\ issued = <<>>
  /\ balanced = {} /\ outputFile = NoFile /\ backupFile = NoFile
  /\ outputBefore = NoFile /\ fileLog = <<>>
  /\ RngIdle /\ ShuffleIdle /\ GenIdle /\ ValIdle

ProcNext == ScrProcessRow

SpecProcess == ProcInit /\ [][ProcNext]_vars

\* row k of all_results and whether it is a dead row
AllResults(k) ==
  IF k <= Len(dead_results)
  THEN [row |-> dead_results[k], is_dead |-> TRUE]
  ELSE [row |-> alive_results[k - Len(dead_results)], is_dead |-> FALSE]

\* a row that has a name for label, an image and a birth year
Complete(row) == row.personLabel = "name" /\ row.image /\ row.hasBirth

\* the rows processed so far that are complete and about person id
CompleteRowsOf(id) ==
  {k \in 1..(rowIndex - 1) : AllResults(k).row.person = id /\ Complete(AllResults(k).row)}

Least(S) == CHOOSE k \in S : \A m \in S : k <= m

(* C12: after each row process_results has processed, the pool holds       *)
(* pairwise distinct identifiers; a person has a candidate in it exactly   *)
(* when one of the rows processed so far is a complete row (name, image    *)
(* and birth year) about that person, whatever incomplete rows came before *)
(* it, and the candidate is the one made from the first such row, dead     *)
(* rows coming before alive rows; the candidates are in the order of these *)
(* first rows.                                                             *)
ProcessedUniqueFirstKept ==
  scrPc = "process" =>
    /\ \A a, b \in 1..Len(processed) : processed[a].id = processed[b].id => a = b
    /\ \A id \in 0..MaxIds :
         IF CompleteRowsOf(id) = {}
         THEN \A k \in 1..Len(processed) : processed[k].id # id
         ELSE \E k \in 1..Len(processed) :
                LET first == AllResults(Least(CompleteRowsOf(id)))
                IN  processed[k] = Celebrity(first.row, first.is_dead)
    /\ \A a, b \in 1..Len(processed) :
         a < b => Least(CompleteRowsOf(processed[a].id))
                    < Least(CompleteRowsOf(processed[b].id))

SkippedThenAcceptedThenDuplicate ==
  /\ scrPc = "process"
  /\ rowIndex = Len(dead_results) + Len(alive_results) + 1
  /\ Len(processed) = 1
  /\ \E i, j, k \in 1..(rowIndex - 1) :
       /\ i < j /\ j < k
       /\ AllResults(i).row.person = processed[1].id
       /\ AllResults(j).row.person = processed[1].id
       /\ AllResults(k).row.person = processed[1].id
       /\ ~Complete(AllResults(i).row)
       /\ Complete(AllResults(j).row) /\ AllResults(j).is_dead
       /\ Complete(AllResults(k).row) /\ ~AllResults(k).is_dead
       /\ processed[1] = Celebrity(AllResults(j).row, TRUE)
       /\ processed[1] # Celebrity(AllResults(k).row, FALSE)

(***************************************************************************)
(* validate.py.  A JSON value of a record is [t, n, s]: its type ("absent" *)
(* for a key the record lacks, "null", "int", "str"), its number, its      *)
(* characters.                                                             *)
(***************************************************************************)
Absent == [t |-> "absent", n |-> 0, s |-> <<>>]

NullValue == [t |-> "null", n |-> 0, s |-> <<>>]

IntValue(n) == [t |-> "int", n |-> n, s |-> <<>>]

StrValue(chars) == [t |-> "str", n |-> 0, s |-> chars]

\* key in celebrity and celebrity[key]: present and neither None, 0 nor ""
Truthy(v) == (v.t = "int" /\ v.n # 0) \/ (v.t = "str" /\ v.s # <<>>)

StartsWith(chars, prefix) ==
  Len(chars) >= Len(prefix) /\ SubSeq(chars, 1, Len(prefix)) = prefix

Digits == {"0", "1", "2", "3", "4", "5", "6", "7", "8", "9"}

\* str.isdigit()
IsDigit(chars) == chars # <<>> /\ \A k \in 1..Len(chars) : chars[k] \in Digits

\* name[1:].replace("-", "")
TailWithoutDash(chars) == SelectSeq(Tail(chars), LAMBDA ch : ch # "-")

Err(index, kind, field) == [index |-> index, kind |-> kind, field |-> field]

\* lines 24-29, for one required field
Required(c, index, field) ==
  IF c[field].t = "absent" THEN <<Err(index, "missing", field)>>
  ELSE IF c[field].t = "null" THEN <<Err(index, "null", field)>>
  ELSE <<>>

\* lines 31-37
BirthErrors(c, index) ==
  IF ~Truthy(c.birthYear) THEN <<>>
  ELSE IF c.birthYear.t # "int" THEN <<Err(index, "birth_not_integer", "")>>
  ELSE IF c.birthYear.n < -500 \/ c.birthYear.n > 2010
  THEN <<Err(index, "birth_out_of_range", "")>>
  ELSE <<>>

\* lines 39-48; comparing the integer death year with a birth year that is a
\* string raises TypeError
DeathErrors(c, index) ==
  IF ~Truthy(c.deathYear) THEN [raised |-> FALSE, errors |-> <<>>]
  ELSE IF c.deathYear.t # "int"
  THEN [raised |-> FALSE, errors |-> <<Err(index, "death_not_integer", "")>>]
  ELSE IF ~Truthy(c.birthYear) THEN [raised |-> FALSE, errors |-> <<>>]
  ELSE IF c.birthYear.t # "int" THEN [raised |-> TRUE, errors |-> <<>>]
  ELSE IF c.deathYear.n < c.birthYear.n
  THEN [raised |-> FALSE, errors |-> <<Err(index, "death_before_birth", "")>>]
  ELSE IF c.deathYear.n - c.birthYear.n > 130
  THEN [raised |-> FALSE, errors |-> <<Err(index, "age_unrealistic", "")>>]
  ELSE [raised |-> FALSE, errors |-> <<>>]

\* lines 50-54; a truthy value that is no string has no startswith
\* (AttributeError)
UrlErrors(c, index) ==
  IF ~Truthy(c.imageUrl) THEN [raised |-> FALSE, errors |-> <<>>]
  ELSE IF c.imageUrl.t # "str" THEN [raised |-> TRUE, errors |-> <<>>]
  ELSE IF ~StartsWith(c.imageUrl.s, <<"h", "t", "t", "p">>)
  THEN [raised |-> FALSE, errors |-> <<Err(index, "invalid_image_url", "")>>]
  ELSE [raised |-> FALSE, errors |-> <<>>]

\* lines 56-60
NameErrors(c, index) ==
  IF ~Truthy(c.name) THEN [raised |-> FALSE, errors |-> <<>>]
  ELSE IF c.name.t # "str" THEN [raised |-> TRUE, errors |-> <<>>]
  ELSE IF StartsWith(c.name.s, <<"Q">>) /\ IsDigit(TailWithoutDash(c.name.s))
  THEN [raised |-> FALSE, errors |-> <<Err(index, "name_is_id", "")>>]
  ELSE [raised |-> FALSE, errors |-> <<>>]

\* lines 19-62: validate_celebrity(celebrity, index): the errors returned,
\* or an exception raised
validate_celebrity(c, index) ==
  LET d == DeathErrors(c, index)
      u == UrlErrors(c, index)
      m == NameErrors(c, index)
  IN  [raised |-> d.raised \/ u.raised \/ m.raised,
       errors |-> Required(c, index, "id") \o Required(c, index, "name")
                    \o Required(c, index, "imageUrl")
                    \o Required(c, index, "birthYear")
                    \o Required(c, index, "profession")
                    \o BirthErrors(c, index) \o d.errors \o u.errors \o m.errors]

\* c.get("id"): None for a record without the key
GetId(c) == IF c.id.t = "absent" THEN NullValue ELSE c.id

\* lines 84-106: check_duplicates: one error for every record whose id an
\* earlier record has
check_duplicates(pool) ==
  LET dup == SelectSeq([k \in 1..Len(pool) |-> k],
                       LAMBDA k : \E e \in 1..(k - 1) : GetId(pool[e]) = GetId(pool[k]))
  IN  [k \in 1..Len(dup) |-> Err(dup[k] - 1, "duplicate_id", "")]

\* lines 65-81: check_balance's is_balanced, 40 <= alive / total * 100 <= 60
\* (0 for an empty pool)
check_balance(pool) ==
  LET alive == Cardinality({k \in 1..Len(pool) : pool[k].deathYear.t \in {"absent", "null"}})
  IN  Len(pool) > 0 /\ 40 * Len(pool) <= 100 * alive /\ 100 * alive <= 60 * Len(pool)

MaxRecords == 2

Record(id, name, url, birth, death) ==
  [id |-> id, name |-> name, imageUrl |-> url, birthYear |-> birth,
   deathYear |-> death, profession |-> StrValue(<<"a">>)]

GoodUrl == StrValue(<<"h", "t", "t", "p", ":", "/">>)

GoodName == StrValue(<<"A", "l">>)

Records ==
  {Record(StrValue(<<"Q", "1">>), GoodName, GoodUrl, b, d) :
     b \in {IntValue(1950), IntValue(0), IntValue(-5), IntValue(2050), StrValue(<<"1", "9", "5", "0">>), Absent},
     d \in {Absent, IntValue(2000), IntValue(0), IntValue(-10), IntValue(1900)}}
  \cup {Record(StrValue(<<"Q", "2">>), GoodName, GoodUrl, IntValue(1960), NullValue),
        Record(Absent, GoodName, Absent, IntValue(1960), Absent),
        Record(StrValue(<<"Q", "3">>), StrValue(<<"Q", "4", "2">>), StrValue(<<"f", "t", "p">>),
               IntValue(1960), IntValue(2100)),
        Record(StrValue(<<"Q", "4">>), StrValue(<<"Q", "-", "7">>), StrValue(<<>>), NullValue, Absent),
        Record(StrValue(<<"Q", "5">>), StrValue(<<"Q">>), GoodUrl, IntValue(1960), StrValue(<<"x">>))}

ValInit ==
  /\ valPool \in UNION {[1..n -> Records] : n \in 0..MaxRecords}
  /\ valPc = "validate" /\ valIndex = 0 /\ all_errors = <<>>
  /\ dupChecked = FALSE /\ is_balanced = FALSE /\ exitStatus = -1
  /\ RngIdle /\ ShuffleIdle /\ GenIdle /\ ScrIdle

\* lines 124-126: one iteration of the loop over the records; an exception
\* validate_celebrity raises is not caught and ends the process with status 1
ValRecord ==
  /\ valPc = "validate"
  /\ valIndex < Len(valPool)
  /\ \E r \in {validate_celebrity(valPool[valIndex + 1], valIndex)} :
       IF r.raised
       THEN /\ valPc' = "crashed" /\ exitStatus' = 1
            /\ UNCHANGED <<valIndex, all_errors>>
       ELSE /\ all_errors' = all_errors \o r.errors
            /\ valIndex' = valIndex + 1
            /\ UNCHANGED <<valPc, exitStatus>>
  /\ UNCHANGED <<valPool, dupChecked, is_balanced>>
  /\ UNCHANGED <<rngVars, shuffleVars, genVars, scrVars>>

\* lines 128-133: check_duplicates and check_balance after the loop
ValDuplicates ==
  /\ valPc = "validate"
  /\ valIndex = Len(valPool)
  /\ all_errors' = all_errors \o check_duplicates(valPool)
  /\ dupChecked' = TRUE
  /\ is_balanced' = check_balance(valPool)
  /\ valPc' = "report"
  /\ UNCHANGED <<valPool, valIndex, exitStatus>>
  /\ UNCHANGED <<rngVars, shuffleVars, genVars, scrVars>>

\* lines 145-163: sys.exit(1) with errors, sys.exit(0) without
ValExit ==
  /\ valPc = "report"
  /\ exitStatus' = IF all_errors # <<>> THEN 1 ELSE 0
  /\ valPc' = "exited"
  /\ UNCHANGED <<valPool, valIndex, all_errors, dupChecked, is_balanced>>
  /\ UNCHANGED <<rngVars, shuffleVars, genVars, scrVars>>

ValNext ==
  \/ ValRecord
  \/ ValDuplicates
  \/ ValExit

SpecValidate == ValInit /\ [][ValNext]_vars

HasError(index, kind) ==
  \E k \in 1..Len(all_errors) :
    all_errors[k].index = index /\ all_errors[k].kind = kind

(* C9: every validated record whose birthYear and deathYear are integers   *)
(* with deathYear < birthYear has a death-before-birth error in the list.  *)
DeathBeforeBirthReported ==
  \A k \in 1..valIndex :
    (/\ valPool[k].birthYear.t = "int"
     /\ valPool[k].deathYear.t = "int"
     /\ valPool[k].deathYear.n < valPool[k].birthYear.n)
      => HasError(k - 1, "death_before_birth")

(* C10: when the validator ends it has run validate_celebrity on every     *)
(* record and then check_duplicates, and its exit status is 1 exactly when *)
(* all_errors is non-empty, whatever the balance.                          *)
ValidatorCollectsAll ==
  valPc \in {"exited", "crashed"} =>
    /\ valIndex = Len(valPool)
    /\ dupChecked
    /\ exitStatus = (IF all_errors # <<>> THEN 1 ELSE 0)

==========================================================================
